---- MODULE Spec2Model ----
(***************************************************************************)
(* A model of trans_batch.py: the numeric classifier, the per-line        *)
(* extraction of translatable items, the block-wise translator with its   *)
(* retry protocol, and the rewriter.                                      *)
(*                                                                         *)
(* A Python str is modelled as a sequence of one-character strings, so    *)
(* that strip, split, join, startswith, "in" and the regular expressions   *)
(* are computed character by character as the code computes them.         *)
(***************************************************************************)
EXTENDS Integers, Sequences, FiniteSets, TLC

VARIABLES
    \* translate_texts_in_blocks
    texts, i, current_block, current_length, block_count, translated_texts,
    pc, retry_count, block_text, requests, waits, outcome, blocks,
    \* extract_translatable_content / process_files_batch / update_file_with_translations
    content, items, updates, out, fpc

tvars == <<texts, i, current_block, current_length, block_count, translated_texts,
           pc, retry_count, block_text, requests, waits, outcome, blocks>>
fvars == <<content, items, updates, out, fpc>>
vars == <<texts, i, current_block, current_length, block_count, translated_texts,
          pc, retry_count, block_text, requests, waits, outcome, blocks,
          content, items, updates, out, fpc>>

----------------------------------------------------------------------------
(* Characters and the str methods the program uses.                        *)

LowerLetters == <<"a","b","c","d","e","f","g","h","i","j","k","l","m",
                  "n","o","p","q","r","s","t","u","v","w","x","y","z">>
UpperLetters == <<"A","B","C","D","E","F","G","H","I","J","K","L","M",
                  "N","O","P","Q","R","S","T","U","V","W","X","Y","Z">>
Digits == {"0","1","2","3","4","5","6","7","8","9"}
Whitespace == {" ", "\t", "\n", "\r"}

Range(s) == {s[k] : k \in 1..Len(s)}

IsLetter(c) == c \in Range(LowerLetters) \cup Range(UpperLetters)

\* str.upper / str.lower, one character
UpperChar(c) ==
    IF c \in Range(LowerLetters)
    THEN UpperLetters[CHOOSE k \in 1..26 : LowerLetters[k] = c]
    ELSE c
LowerChar(c) ==
    IF c \in Range(UpperLetters)
    THEN LowerLetters[CHOOSE k \in 1..26 : UpperLetters[k] = c]
    ELSE c
Upper(s) == [k \in 1..Len(s) |-> UpperChar(s[k])]
Lower(s) == [k \in 1..Len(s) |-> LowerChar(s[k])]

\* s[a:b] with 1-based inclusive positions; empty when a > b
Slice(s, a, b) == IF a > b THEN <<>> ELSE SubSeq(s, a, b)

\* str.lstrip(chars) / str.rstrip(chars) / str.strip()
LStripSet(s, set) ==
    IF \A k \in 1..Len(s) : s[k] \in set THEN <<>>
    ELSE Slice(s, CHOOSE k \in 1..Len(s) :
                     s[k] \notin set /\ \A j \in 1..(k-1) : s[j] \in set, Len(s))
RStripSet(s, set) ==
    IF \A k \in 1..Len(s) : s[k] \in set THEN <<>>
    ELSE Slice(s, 1, CHOOSE k \in 1..Len(s) :
                        s[k] \notin set /\ \A j \in (k+1)..Len(s) : s[j] \in set)
Strip(s) == RStripSet(LStripSet(s, Whitespace), Whitespace)

\* str.startswith / str.endswith
StartsWith(s, p) == Len(p) <= Len(s) /\ Slice(s, 1, Len(p)) = p
EndsWith(s, p) == Len(p) <= Len(s) /\ Slice(s, Len(s) - Len(p) + 1, Len(s)) = p

\* p occurs in s at position k
OccursAt(s, p, k) == k >= 1 /\ k + Len(p) - 1 <= Len(s) /\ Slice(s, k, k + Len(p) - 1) = p
\* "p in s"
Contains(s, p) == \E k \in 1..Len(s) : OccursAt(s, p, k)
\* str.find, 1-based; p must occur in s
Find(s, p) == CHOOSE k \in 1..Len(s) :
                 OccursAt(s, p, k) /\ \A j \in 1..(k-1) : ~OccursAt(s, p, j)

\* s.split(sep, 1) when sep occurs in s: <<before, after>>
SplitFirst(s, sep) ==
    LET k == Find(s, sep)
    IN  <<Slice(s, 1, k - 1), Slice(s, k + Len(sep), Len(s))>>

\* s.split(sep)
RECURSIVE Split(_, _)
Split(s, sep) ==
    IF ~Contains(s, sep) THEN <<s>>
    ELSE LET p == SplitFirst(s, sep) IN <<p[1]>> \o Split(p[2], sep)

\* sep.join(parts)
RECURSIVE Join(_, _)
Join(parts, sep) ==
    IF Len(parts) = 0 THEN <<>>
    ELSE IF Len(parts) = 1 THEN parts[1]
    ELSE parts[1] \o sep \o Join(Tail(parts), sep)

\* re.search(r'[a-zA-Z]', s)
HasLetter(s) == \E k \in 1..Len(s) : IsLetter(s[k])

----------------------------------------------------------------------------
(* is_number_or_scientific                                                 *)

\* str.isdigit on ASCII text
IsDigitStr(s) == Len(s) > 0 /\ \A k \in 1..Len(s) : s[k] \in Digits
\* \d* of the regular expressions
IsDigitsOrEmpty(s) == \A k \in 1..Len(s) : s[k] \in Digits

\* float(): digitpart ::= digit (["_"] digit)*
IsDigitPart(s) ==
    /\ Len(s) > 0
    /\ s[1] \in Digits /\ s[Len(s)] \in Digits
    /\ \A k \in 1..Len(s) : s[k] \in Digits \cup {"_"}
    /\ \A k \in 1..(Len(s) - 1) : ~(s[k] = "_" /\ s[k+1] = "_")
\* float(): pointfloat ::= [digitpart] "." digitpart | digitpart ["."]
IsPointFloat(s) ==
    \/ IsDigitPart(s)
    \/ \E k \in 1..Len(s) :
          /\ s[k] = "."
          /\ LET a == Slice(s, 1, k - 1)
                 b == Slice(s, k + 1, Len(s))
             IN  \/ IsDigitPart(a) /\ (b = <<>> \/ IsDigitPart(b))
                 \/ a = <<>> /\ IsDigitPart(b)
\* float(): exponent ::= ("e" | "E") ["+" | "-"] digitpart
IsFloatNumber(s) ==
    \/ IsPointFloat(s)
    \/ \E k \in 1..Len(s) :
          /\ s[k] \in {"e", "E"}
          /\ IsPointFloat(Slice(s, 1, k - 1))
          /\ LET x == Slice(s, k + 1, Len(s))
             IN  IsDigitPart(IF Len(x) > 0 /\ x[1] \in {"+", "-"} THEN Tail(x) ELSE x)
\* float(s) does not raise ValueError
ParsesAsFloat(s) ==
    LET t == Strip(s)
        u == IF Len(t) > 0 /\ t[1] \in {"+", "-"} THEN Tail(t) ELSE t
    IN  \/ Lower(u) \in {<<"i","n","f">>, <<"n","a","n">>,
                         <<"i","n","f","i","n","i","t","y">>}
        \/ IsFloatNumber(u)

\* text.replace(',', '.')
ReplaceComma(s) == [k \in 1..Len(s) |-> IF s[k] = "," THEN "." ELSE s[k]]

\* drop one optional leading sign: the [+-]? of the regular expressions
DropSign(s) == IF Len(s) > 0 /\ s[1] \in {"+", "-"} THEN Tail(s) ELSE s

\* re.match(r'^[+-]?\d+\.?\d*E[+-]?\d*$', s)
MatchesScientific(s) ==
    LET u == DropSign(s)
    IN  \E k \in 1..Len(u) :
          /\ u[k] = "E"
          /\ LET m == Slice(u, 1, k - 1)
                 x == Slice(u, k + 1, Len(u))
             IN  /\ \E d \in 1..Len(m) :
                       /\ IsDigitStr(Slice(m, 1, d))
                       /\ LET r == Slice(m, d + 1, Len(m))
                          IN  \/ IsDigitsOrEmpty(r)
                              \/ Len(r) > 0 /\ r[1] = "." /\ IsDigitsOrEmpty(Tail(r))
                 /\ IsDigitsOrEmpty(DropSign(x))

\* re.match(r'^[+-]?\d+[EN]$', s)
MatchesSuffixEN(s) ==
    LET u == DropSign(s)
    IN  Len(u) >= 2 /\ u[Len(u)] \in {"E", "N"} /\ IsDigitStr(Slice(u, 1, Len(u) - 1))

\* re.match(r'^\d+/\d+$', s)
MatchesFraction(s) ==
    \E k \in 1..Len(s) :
       s[k] = "/" /\ IsDigitStr(Slice(s, 1, k - 1)) /\ IsDigitStr(Slice(s, k + 1, Len(s)))

is_number_or_scientific(text0) ==
    LET text == Strip(text0)
    IN  \/ text = <<>> \/ text \in {<<"-">>, <<"+">>}
        \/ IsDigitStr(LStripSet(text, {"-", "+"}))
        \/ ParsesAsFloat(text)
        \/ ParsesAsFloat(ReplaceComma(text))
        \/ EndsWith(Upper(text), <<"E">>)
        \/ MatchesScientific(Upper(text))
        \/ MatchesSuffixEN(Upper(text))
        \/ MatchesFraction(text)

----------------------------------------------------------------------------
(* extract_translatable_content: the items of one line, then of a file.   *)
(* An item is the dict of the code; the fields a type does not carry are  *)
(* held at NoKey / NoColumn.  line_num and column_index are zero-based.   *)

NoKey == <<"<none>">>
NoColumn == 0 - 1

Item(type, line_num, key, value, original_line, column_index) ==
    [type |-> type, line_num |-> line_num, key |-> key, value |-> value,
     original_line |-> original_line, column_index |-> column_index]

\* '[' in value and ']' in value
HasBrackets(s) == Contains(s, <<"[">>) /\ Contains(s, <<"]">>)

\* no value taken for a path
IsDrivePath_Never(value) == FALSE

\* line 83: value.startswith('C:\\')
IsDrivePath(value) == StartsWith(value, <<"C", ":", "\\">>)

\* lines 77-101: the line contains '='
ExtractKeyValue(line_num, original_line, line) ==
    LET kv == SplitFirst(line, <<"=">>)
        key == kv[1]
        value == Strip(kv[2])
    IN  IF \/ value = <<>>
           \/ IsDrivePath(value)
           \/ is_number_or_scientific(value)
           \/ Len(value) < 2
        THEN <<>>
        ELSE IF HasBrackets(value) THEN <<>>
        ELSE IF HasLetter(value) /\ ~StartsWith(value, <<"h","t","t","p">>)
        THEN <<Item("key_value", line_num, Strip(key), value, original_line, NoColumn)>>
        ELSE <<>>

\* lines 107-130: one field of a semicolon-delimited line
ExtractCell(line_num, original_line, col_index, part0) ==
    LET part == Strip(part0)
    IN  IF \/ part = <<>>
           \/ part = <<"-">>
           \/ is_number_or_scientific(part)
           \/ Len(part) < 2
        THEN <<>>
        ELSE IF HasBrackets(part) THEN <<>>
        ELSE IF HasLetter(part)
        THEN <<Item("csv_cell", line_num, NoKey, part, original_line, col_index)>>
        ELSE <<>>

RECURSIVE ExtractCells(_, _, _, _)
ExtractCells(line_num, original_line, parts, col_index) ==
    IF col_index >= Len(parts) THEN <<>>
    ELSE ExtractCell(line_num, original_line, col_index, parts[col_index + 1])
         \o ExtractCells(line_num, original_line, parts, col_index + 1)

\* lines 133-158: the line contains ': '
ExtractColonValue(line_num, original_line, line) ==
    LET kv == SplitFirst(line, <<":", " ">>)
        key == kv[1]
        value == Strip(kv[2])
    IN  IF \/ value = <<>>
           \/ is_number_or_scientific(value)
           \/ Len(value) < 2
        THEN <<>>
        ELSE IF HasBrackets(value) THEN <<>>
        ELSE IF HasLetter(value)
        THEN <<Item("colon_value", line_num, Strip(key), value, original_line, NoColumn)>>
        ELSE <<>>

\* lines 161-174: no separator
ExtractFullLine(line_num, original_line, line) ==
    IF HasBrackets(line) THEN <<>>
    ELSE IF HasLetter(line) /\ Len(line) >= 2
    THEN <<Item("full_line", line_num, NoKey, line, original_line, NoColumn)>>
    ELSE <<>>

\* lines 68-174: the body of the loop over the lines
ExtractLine(line_num, original_line) ==
    LET line == Strip(original_line)
    IN  IF \/ line = <<>>
           \/ StartsWith(line, <<"#">>)
           \/ StartsWith(line, <<"[">>)
           \/ StartsWith(line, <<"/", "/">>)
        THEN <<>>
        ELSE IF Contains(line, <<"=">>) THEN ExtractKeyValue(line_num, original_line, line)
        ELSE IF Contains(line, <<";">>)
        THEN ExtractCells(line_num, original_line, Split(line, <<";">>), 0)
        ELSE IF Contains(line, <<":", " ">>) THEN ExtractColonValue(line_num, original_line, line)
        ELSE ExtractFullLine(line_num, original_line, line)

RECURSIVE ExtractFrom(_, _)
ExtractFrom(lines, line_num) ==
    IF line_num >= Len(lines) THEN <<>>
    ELSE ExtractLine(line_num, lines[line_num + 1]) \o ExtractFrom(lines, line_num + 1)

extract_translatable_content(lines) == ExtractFrom(lines, 0)

----------------------------------------------------------------------------
(* update_file_with_translations                                           *)

Update(item, translated_value) ==
    [type |-> item.type, line_num |-> item.line_num, key |-> item.key,
     original_value |-> item.value, translated_value |-> translated_value,
     original_line |-> item.original_line, column_index |-> item.column_index]

\* lines 303-310: the csv_cell line
CsvLine(update) ==
    LET parts == Split(Strip(update.original_line), <<";">>)
        col_index == update.column_index
        newparts == IF col_index < Len(parts)
                    THEN [parts EXCEPT ![col_index + 1] = update.translated_value]
                    ELSE parts
    IN  Join(newparts, <<";">>) \o <<"\n">>

\* lines 295-313: new_line
NewLine(update) ==
    IF update.type = "key_value"
    THEN update.key \o <<"=">> \o update.translated_value \o <<"\n">>
    ELSE IF update.type = "colon_value"
    THEN update.key \o <<":", " ">> \o update.translated_value \o <<"\n">>
    ELSE IF update.type = "csv_cell" THEN CsvLine(update)
    ELSE update.translated_value \o <<"\n">>

\* the new line stored one line too far
ApplyUpdate_NextLine(lines, update) ==
    IF update.line_num < Len(lines)
    THEN [lines EXCEPT ![IF update.line_num + 2 <= Len(lines)
                         THEN update.line_num + 2 ELSE 1] = NewLine(update)]
    ELSE lines

\* lines 289-315: one iteration of the loop over the updates
ApplyUpdate(lines, update) ==
    IF update.line_num < Len(lines)
    THEN [lines EXCEPT ![update.line_num + 1] = NewLine(update)]
    ELSE lines

RECURSIVE ApplyUpdates(_, _)
ApplyUpdates(lines, ups) ==
    IF ups = <<>> THEN lines
    ELSE ApplyUpdates(ApplyUpdate(lines, Head(ups)), Tail(ups))

----------------------------------------------------------------------------
(* translate_texts_in_blocks and translate_block_with_retry               *)

\* Bounds of the model.  max_block_size is the parameter of the call,
\* scaled down so that blocks of one, two and three texts occur.
MaxTexts == 3
max_block_size == 7
\* the default of the parameter max_retries
max_retries == 3

Separator == <<"\n", "\n">>
None == <<"<None>">>

\* The input texts: short texts, and one that alone exceeds max_block_size.
TextOfLen(n) == [k \in 1..n |-> "a"]
TextPool == {TextOfLen(1), TextOfLen(2), TextOfLen(max_block_size + 1)}
TextLists == UNION {[1..n -> TextPool] : n \in 0..MaxTexts}

\* What the backend makes of one text: any text other than the original.
Tr(text) == <<"Z">> \o text
TrAll(block) == [k \in 1..Len(block) |-> Tr(block[k])]

\* The replies of GoogleTranslator.translate to a block: the separators kept,
\* the separators merged away, a separator too many, padded with white
\* space, and the empty reply.
ReplyKinds == {"exact", "fewer", "more", "padded", "empty"}
BackendReply(kind, block) ==
    IF kind = "exact" THEN Join(TrAll(block), Separator)
    ELSE IF kind = "fewer" THEN Join(TrAll(block), <<" ">>)
    ELSE IF kind = "more" THEN Join(TrAll(block), Separator) \o Separator \o <<"Z">>
    ELSE IF kind = "padded" THEN <<" ">> \o Join(TrAll(block), Separator) \o <<"\n">>
    ELSE <<>>

\* One request to the backend: the text submitted and what came of it,
\* the message of the exception raised or NoError.
NoError == <<"<no error>">>
Request(text, raised) == [text |-> text, raised |-> raised]

\* str(e) of the exceptions the backend raises
TimeoutError == <<"R","e","a","d"," ","T","i","m","e","o","u","t">>
QuotaError == <<"q","u","o","t","a">>
ErrorMessages == {TimeoutError, QuotaError}

NetworkKeywords == {<<"n","e","t","w","o","r","k">>,
                    <<"c","o","n","n","e","c","t","i","o","n">>,
                    <<"t","i","m","e","o","u","t">>,
                    <<"s","s","l">>,
                    <<"h","a","n","d","s","h","a","k","e">>,
                    <<"k","e","y","b","o","a","r","d","i","n","t","e","r","r","u","p","t">>}

\* a classifier that takes every failure for a network failure
IsNetworkError_Always(e) == TRUE

\* lines 195-197
IsNetworkError(e) ==
    LET error_msg == Lower(e)
    IN  \E keyword \in NetworkKeywords : Contains(error_msg, keyword)

\* the retry guard off by one
CanRetry_Inclusive(count) == count <= max_retries

\* line 198
CanRetry(count) == count < max_retries

\* a backoff that does not grow
WaitTime_Constant(count) == 2

\* line 199
WaitTime(count) == (count + 1) * 2

\* line 212
NeedsFlush(length, text, block) ==
    length + Len(text) > max_block_size /\ block # <<>>

\* the running length without the separator overhead
LengthAfter_NoSeparator(length, text) == length + Len(text)

\* line 240
LengthAfter(length, text) == length + Len(text) + 2

\* lines 225-226: pad the missing tail with the original texts
PadWithOriginals(block_translations, block) ==
    [k \in 1..(IF Len(block_translations) < Len(block)
               THEN Len(block) ELSE Len(block_translations)) |->
        IF k <= Len(block_translations) THEN block_translations[k] ELSE block[k]]

\* the excess segments kept
Truncate_KeepAll(block_translations, n) == block_translations

\* line 228: block_translations[:len(current_block)]
Truncate(block_translations, n) ==
    Slice(block_translations, 1, IF n < Len(block_translations) THEN n ELSE Len(block_translations))

\* lines 221-232 and 250-260: what a block adds to translated_texts
BlockResult(block, translated_block) ==
    IF translated_block # None /\ translated_block # <<>>
    THEN Truncate(PadWithOriginals(Split(Strip(translated_block), Separator), block),
                  Len(block))
    ELSE block

FileIdle ==
    /\ content = <<>> /\ items = <<>> /\ updates = <<>>
    /\ out = <<>> /\ fpc = "idle"

Init ==
    /\ texts \in TextLists
    /\ i = 1
    /\ current_block = <<>>
    /\ current_length = 0
    /\ block_count = 0
    /\ translated_texts = <<>>
    /\ pc = "loop"
    /\ retry_count = 0
    /\ block_text = <<>>
    /\ requests = <<>>
    /\ waits = <<>>
    /\ outcome = "none"
    /\ blocks = <<>>
    /\ FileIdle

\* lines 210-240, an iteration that does not flush
AddText ==
    /\ pc = "loop"
    /\ i <= Len(texts)
    /\ ~NeedsFlush(current_length, texts[i], current_block)
    /\ current_block' = Append(current_block, texts[i])
    /\ current_length' = LengthAfter(current_length, texts[i])
    /\ i' = i + 1
    /\ UNCHANGED <<texts, block_count, translated_texts, pc, retry_count, block_text,
                   requests, waits, outcome, blocks>>
    /\ UNCHANGED fvars

\* lines 212-219: the block is full, join it and call translate_block_with_retry
FlushBlock ==
    /\ pc = "loop"
    /\ i <= Len(texts)
    /\ NeedsFlush(current_length, texts[i], current_block)
    /\ block_count' = block_count + 1
    /\ block_text' = Join(current_block, Separator)
    /\ retry_count' = 0
    /\ requests' = <<>>
    /\ waits' = <<>>
    /\ outcome' = "none"
    /\ pc' = "call_in_loop"
    /\ UNCHANGED <<texts, i, current_block, current_length, translated_texts, blocks>>
    /\ UNCHANGED fvars

\* lines 243-248: the last block
FlushLast ==
    /\ pc = "loop"
    /\ i > Len(texts)
    /\ current_block # <<>>
    /\ block_count' = block_count + 1
    /\ block_text' = Join(current_block, Separator)
    /\ retry_count' = 0
    /\ requests' = <<>>
    /\ waits' = <<>>
    /\ outcome' = "none"
    /\ pc' = "call_last"
    /\ UNCHANGED <<texts, i, current_block, current_length, translated_texts, blocks>>
    /\ UNCHANGED fvars

\* lines 243, 262-265 with no block left: return
ReturnEmpty ==
    /\ pc = "loop"
    /\ i > Len(texts)
    /\ current_block = <<>>
    /\ pc' = "done"
    /\ UNCHANGED <<texts, i, current_block, current_length, block_count, translated_texts,
                   retry_count, block_text, requests, waits, outcome, blocks>>
    /\ UNCHANGED fvars

\* translate_block_with_retry has returned translated_block to the caller:
\* lines 221-240 in the loop, lines 250-265 after it.
Resume(translated_block, how) ==
    /\ translated_texts' = translated_texts \o BlockResult(current_block, translated_block)
    /\ blocks' = Append(blocks, [how |-> how, first |-> Len(translated_texts) + 1,
                                 size |-> Len(current_block)])
    /\ IF pc = "call_in_loop"
       THEN /\ current_block' = <<texts[i]>>
            /\ current_length' = LengthAfter(0, texts[i])
            /\ i' = i + 1
            /\ pc' = "loop"
       ELSE /\ pc' = "done"
            /\ UNCHANGED <<current_block, current_length, i>>

\* line 192-193: the request succeeds
BackendReplies ==
    /\ pc \in {"call_in_loop", "call_last"}
    /\ \E kind \in ReplyKinds :
          /\ requests' = Append(requests, Request(block_text, NoError))
          /\ outcome' = kind
          /\ Resume(BackendReply(kind, current_block), kind)
    /\ UNCHANGED <<texts, block_count, retry_count, block_text, waits>>
    /\ UNCHANGED fvars

\* lines 194-208: the request raises
BackendRaises ==
    /\ pc \in {"call_in_loop", "call_last"}
    /\ \E e \in ErrorMessages :
          /\ requests' = Append(requests, Request(block_text, e))
          /\ IF IsNetworkError(e)
             THEN IF CanRetry(retry_count)
                  THEN /\ waits' = Append(waits, WaitTime(retry_count))
                       /\ retry_count' = retry_count + 1
                       /\ UNCHANGED <<translated_texts, blocks, current_block,
                                      current_length, i, pc, outcome>>
                  ELSE /\ outcome' = "exhausted"
                       /\ Resume(None, "exhausted")
                       /\ UNCHANGED <<waits, retry_count>>
             ELSE /\ outcome' = "failed"
                  /\ Resume(None, "failed")
                  /\ UNCHANGED <<waits, retry_count>>
    /\ UNCHANGED <<texts, block_count, block_text>>
    /\ UNCHANGED fvars

Next ==
    \/ AddText
    \/ FlushBlock
    \/ FlushLast
    \/ ReturnEmpty
    \/ BackendReplies
    \/ BackendRaises

Spec == Init /\ [][Next]_vars

----------------------------------------------------------------------------
(* Properties of translate_texts_in_blocks, checked under Spec.            *)

InCall == pc \in {"call_in_loop", "call_last"}

RECURSIVE SumLen(_)
SumLen(block) == IF block = <<>> THEN 0 ELSE Len(Head(block)) + SumLen(Tail(block))

LastBlock == blocks[Len(blocks)]
\* the input texts of a finished block, and what was returned at their positions
BlockTexts(b) == [k \in 1..b.size |-> texts[b.first + k - 1]]
BlockOutput(b) ==
    [k \in 1..b.size |->
        IF b.first + k - 1 <= Len(translated_texts)
        THEN translated_texts[b.first + k - 1] ELSE None]

\* C1: the call returns exactly as many texts as it was given, whatever the
\* backend did on each block.
C1_SameLength ==
    pc = "done" => Len(translated_texts) = Len(texts)

\* a run of MaxTexts texts in which one block exhausted its retries and a
\* later block of two texts or more came back merged into fewer segments
C1_Witness ==
    /\ pc = "done"
    /\ Len(texts) = MaxTexts
    /\ outcome = "fewer" /\ LastBlock.size >= 2
    /\ \E k \in 1..Len(blocks) : blocks[k].how = "exhausted"

\* C3 as stated: a block is submitted at most 3 times in all, and a block
\* that exhausted the budget is returned untranslated.
C3_Original ==
    /\ Len(requests) <= 3
    /\ outcome = "exhausted" => BlockOutput(LastBlock) = BlockTexts(LastBlock)

\* C3 amended: a block is submitted at most max_retries + 1 = 4 times (the
\* first request and 3 retries); a block whose requests all failed with a
\* network error was submitted exactly 4 times, always with the same text,
\* after 3 waits, and every item of it is returned as its original text.
C3_RetryBudget ==
    /\ Len(requests) <= max_retries + 1
    /\ outcome = "exhausted" =>
          /\ Len(requests) = max_retries + 1
          /\ \A j \in 1..Len(requests) : requests[j] = Request(block_text, TimeoutError)
          /\ Len(waits) = max_retries
          /\ BlockOutput(LastBlock) = BlockTexts(LastBlock)

C3_Witness ==
    /\ outcome = "exhausted"
    /\ LastBlock.size >= 2
    /\ Len(requests) = 4

\* C8: a block whose request fails with an error that is not network-class
\* is not resubmitted and no wait occurs: exactly one request was made for
\* it.  (After earlier network failures of the same block the same holds of
\* the failing request: it is the last one and no wait follows it.)  The
\* block is returned as its original texts at its own positions, and the
\* blocks the backend translated are returned translated whatever their
\* neighbours did.
C8_NoRetryOnOtherError ==
    /\ (Len(requests) >= 1 /\ requests[1].raised = QuotaError) =>
          /\ Len(requests) = 1
          /\ waits = <<>>
          /\ ~InCall
          /\ outcome = "failed"
          /\ BlockOutput(LastBlock) = BlockTexts(LastBlock)
    /\ \A j \in 1..Len(requests) :
          requests[j].raised = QuotaError =>
             /\ j = Len(requests)
             /\ Len(waits) = j - 1
             /\ ~InCall
             /\ outcome = "failed"
    /\ \A k \in 1..Len(blocks) :
          /\ blocks[k].how = "failed" => BlockOutput(blocks[k]) = BlockTexts(blocks[k])
          /\ blocks[k].how \in {"exact", "padded", "more"} =>
                BlockOutput(blocks[k]) = TrAll(BlockTexts(blocks[k]))

\* a failed block between two translated ones
C8_Witness ==
    /\ pc = "done"
    /\ \E k \in 2..(Len(blocks) - 1) :
          /\ blocks[k].how = "failed"
          /\ blocks[k-1].how = "exact"
          /\ blocks[k+1].how = "exact"
          /\ BlockOutput(blocks[k-1]) # BlockTexts(blocks[k-1])

\* C9 as stated: a submitted block of more than one text has a character
\* count, the lengths of its texts plus 2 for each item, of at most
\* max_block_size.
C9_Original ==
    (InCall /\ Len(current_block) > 1) =>
        SumLen(current_block) + 2 * Len(current_block) <= max_block_size

\* C9 amended: a submitted block of more than one text has a joined length,
\* the lengths of its texts plus 2 for each separator between two items, of
\* at most max_block_size; the count of the claim, with 2 for each item, can
\* reach max_block_size + 2.  A longer block holds a single text.
C9_JoinedLength ==
    InCall =>
        /\ Len(current_block) >= 1
        /\ Len(block_text) = SumLen(current_block) + 2 * (Len(current_block) - 1)
        /\ current_length = SumLen(current_block) + 2 * Len(current_block)
        /\ Len(current_block) > 1 => Len(block_text) <= max_block_size
        /\ Len(block_text) > max_block_size =>
              Len(current_block) = 1 /\ Len(current_block[1]) > max_block_size

\* a block of three texts that fills max_block_size exactly
C9_Witness ==
    /\ InCall
    /\ Len(current_block) = 3
    /\ Len(block_text) = max_block_size
    /\ current_length > max_block_size

\* C10: when k network failures in a row are followed by a reply, k is
\* within max_retries, every request carried the same block text, there were
\* exactly k waits, the j-th of 2*j seconds and so each longer than the one
\* before, and the block is returned as the backend translated it, not as
\* the original texts.
C10_RetryThenSuccess ==
    outcome \in ReplyKinds \ {"empty"} =>
        LET k == Len(requests) - 1
        IN  /\ k >= 0 /\ k <= max_retries
            /\ requests[k + 1] = Request(block_text, NoError)
            /\ \A j \in 1..k : requests[j] = Request(block_text, TimeoutError)
            /\ block_text = Join(BlockTexts(LastBlock), Separator)
            /\ Len(waits) = k
            /\ \A j \in 1..k : waits[j] = 2 * j
            /\ \A j \in 1..(k - 1) : waits[j] < waits[j + 1]
            /\ BlockOutput(LastBlock) # BlockTexts(LastBlock)
            /\ outcome \in {"exact", "padded", "more"} =>
                  BlockOutput(LastBlock) = TrAll(BlockTexts(LastBlock))

\* two timeouts, then the reply on the third attempt, with two waits
C10_Witness ==
    /\ outcome = "exact"
    /\ Len(requests) = 3
    /\ waits = <<2, 4>>
    /\ LastBlock.size >= 2
    /\ BlockOutput(LastBlock) = TrAll(BlockTexts(LastBlock))


----------------------------------------------------------------------------
(* process_files_batch on one file: extract, translate, rewrite.          *)

MaxLines == 2

\* spec example 1: name=Hello World\n
LineExample1 ==
    <<"n","a","m","e","=","H","e","l","l","o"," ","W","o","r","l","d","\n">>
\* spec example 2: A;12.5;Temperature;N\n
LineExample2 ==
    <<"A",";","1","2",".","5",";","T","e","m","p","e","r","a","t","u","r","e",";","N","\n">>
\* spec example 3: C:\path\to\file=something\n
LineExample3 ==
    <<"C",":","\\","p","a","t","h","\\","t","o","\\","f","i","l","e","=","s","o","m","e","t","h","i","n","g","\n">>
\* a key whose value is a drive path: p=C:\x\n
LinePathValue ==
    <<"p","=","C",":","\\","x","\n">>
\* an indented key = value with blanks around the separator:   k = ab\n
LinePaddedKeyValue ==
    <<" "," ","k"," ","="," ","a","b","\n">>
\* a numeric value: n=12\n
LineNumberValue ==
    <<"n","=","1","2","\n">>
\* two translatable cells: ab;cd\n
LineCells ==
    <<"a","b",";","c","d","\n">>
\* padded cells around a number:  ab ; 12 ; cd\n
LinePaddedCells ==
    <<" ","a","b"," ",";"," ","1","2"," ",";"," ","c","d","\n">>
\* key: value: k: ab\n
LineColon ==
    <<"k",":"," ","a","b","\n">>
\* free text: ab cd\n
LineFull ==
    <<"a","b"," ","c","d","\n">>
\* indented free text:   ab\n
LineIndented ==
    <<" "," ","a","b","\n">>
\* a comment: #ab\n
LineComment ==
    <<"#","a","b","\n">>
\* a section title: [ab]\n
LineSection ==
    <<"[","a","b","]","\n">>
\* an empty line: \n
LineEmpty ==
    <<"\n">>
LinePool ==
    {LineExample1,
     LineExample2,
     LineExample3,
     LinePathValue,
     LinePaddedKeyValue,
     LineNumberValue,
     LineCells,
     LinePaddedCells,
     LineColon,
     LineFull,
     LineIndented,
     LineComment,
     LineSection,
     LineEmpty}

\* The files: readlines() of a file of one to MaxLines lines
Files == UNION {[1..n -> LinePool] : n \in 1..MaxLines}

TranslatorIdle ==
    /\ texts = <<>> /\ i = 0 /\ current_block = <<>> /\ current_length = 0
    /\ block_count = 0 /\ translated_texts = <<>> /\ pc = "idle" /\ retry_count = 0
    /\ block_text = <<>> /\ requests = <<>> /\ waits = <<>> /\ outcome = "none"
    /\ blocks = <<>>

InitFile ==
    /\ content \in Files
    /\ items = <<>>
    /\ updates = <<>>
    /\ out = <<>>
    /\ fpc = "extract"
    /\ TranslatorIdle

\* lines 361-369 and 382-384: a file without items is not translated
Extract ==
    /\ fpc = "extract"
    /\ items' = extract_translatable_content(content)
    /\ fpc' = IF items' = <<>> THEN "no_content" ELSE "translate"
    /\ UNCHANGED <<content, updates, out>>
    /\ UNCHANGED tvars

\* What translate_texts_in_blocks returns for the values of the items: one
\* text per item, the backend's translation or, where a block fell back,
\* the original text.
TranslationsOf(its) == [1..Len(its) -> {"translated", "original"}]

\* lines 387-416: translate the values and build one update per item
Translate ==
    /\ fpc = "translate"
    /\ \E choice \in TranslationsOf(items) :
          updates' = [k \in 1..Len(items) |->
                         Update(items[k], IF choice[k] = "translated"
                                          THEN Tr(items[k].value)
                                          ELSE items[k].value)]
    /\ fpc' = "update"
    /\ UNCHANGED <<content, items, out>>
    /\ UNCHANGED tvars

\* lines 267-327: update_file_with_translations(file_path, updates)
Rewrite ==
    /\ fpc = "update"
    /\ out' = ApplyUpdates(content, updates)
    /\ fpc' = "written"
    /\ UNCHANGED <<content, items, updates>>
    /\ UNCHANGED tvars

NextFile ==
    \/ Extract
    \/ Translate
    \/ Rewrite

SpecFile == InitFile /\ [][NextFile]_vars

----------------------------------------------------------------------------
(* update_file_with_translations called with any list of updates.         *)

MaxUpdates == 2

RewriteLines == {LineCells, LineColon}
RewriteFiles == UNION {[1..n -> RewriteLines] : n \in 1..MaxLines}

\* The updates: every type, line numbers in and out of range, column
\* indexes in and out of range.
AnyUpdates ==
    {[type |-> "key_value", line_num |-> n, key |-> <<"k">>, original_value |-> <<"a","b">>,
      translated_value |-> <<"Z","a","b">>, original_line |-> LineColon,
      column_index |-> NoColumn] : n \in 0..MaxLines}
    \cup
    {[type |-> "colon_value", line_num |-> n, key |-> <<"k">>, original_value |-> <<"a","b">>,
      translated_value |-> <<"Z","a","b">>, original_line |-> LineColon,
      column_index |-> NoColumn] : n \in 0..MaxLines}
    \cup
    {[type |-> "full_line", line_num |-> n, key |-> NoKey, original_value |-> <<"a","b">>,
      translated_value |-> <<"Z","a","b">>, original_line |-> LineColon,
      column_index |-> NoColumn] : n \in 0..MaxLines}
    \cup
    {[type |-> "csv_cell", line_num |-> n, key |-> NoKey, original_value |-> <<"a","b">>,
      translated_value |-> <<"Z","a","b">>, original_line |-> LineCells,
      column_index |-> c] : n \in 0..MaxLines, c \in {0, 5}}

UpdateLists == UNION {[1..n -> AnyUpdates] : n \in 0..MaxUpdates}

InitRewrite ==
    /\ content \in RewriteFiles
    /\ items = <<>>
    /\ updates \in UpdateLists
    /\ out = <<>>
    /\ fpc = "update"
    /\ TranslatorIdle

NextRewrite == Rewrite

SpecRewrite == InitRewrite /\ [][NextRewrite]_vars

----------------------------------------------------------------------------
(* Properties of the extraction and of the rewrite, checked under         *)
(* SpecFile.                                                               *)

Extracted == fpc # "extract"

ItemsOfLine(line_num) == SelectSeq(items, LAMBDA it : it.line_num = line_num)

\* the fields of the line of the output an update was applied to
OutputFields(update) == Split(Strip(out[update.line_num + 1]), <<";">>)

\* C2 as stated: once all the updates are applied, the output line carries
\* the translated value of every csv_cell update of that line, each in its
\* own column.
C2_Original ==
    fpc = "written" =>
        \A k \in 1..Len(updates) :
            updates[k].type = "csv_cell" =>
                /\ updates[k].column_index < Len(OutputFields(updates[k]))
                /\ OutputFields(updates[k])[updates[k].column_index + 1]
                      = updates[k].translated_value

\* an alphabetic word of two letters or more
IsWord(s) == Len(s) >= 2 /\ \A k \in 1..Len(s) : IsLetter(s[k])

Temperature == <<"T","e","m","p","e","r","a","t","u","r","e">>

\* C4 as stated: no alphabetic word of two letters or more among the fields
\* of a line is classified as numeric, and the line A;12.5;Temperature;N
\* yields exactly one item, the csv_cell of Temperature in column 2.
C4_Original ==
    Extracted =>
        \A n \in 1..Len(content) :
            /\ \A f \in Range(Split(Strip(content[n]), <<";">>)) :
                  IsWord(Strip(f)) => ~is_number_or_scientific(Strip(f))
            /\ content[n] = LineExample2 =>
                  ItemsOfLine(n - 1) =
                     <<Item("csv_cell", n - 1, NoKey, Temperature, LineExample2, 2)>>

\* C5 as stated: a line that begins with a drive path and contains '='
\* yields no item.
C5_Original ==
    Extracted =>
        \A n \in 1..Len(content) :
            (StartsWith(Strip(content[n]), <<"C", ":", "\\">>)
               /\ Contains(content[n], <<"=">>))
            => ItemsOfLine(n - 1) = <<>>

\* the value of a line that contains '=': what follows the first '=', stripped
ValueOf(line) == Strip(SplitFirst(Strip(line), <<"=">>)[2])

\* C5 amended: a line that contains '=' and whose value, the stripped text
\* after the first '=', begins with C:\ yields no item, even when that value
\* contains letters; a drive path before the '=' is a key like any other.
C5_PathValueSkipped ==
    Extracted =>
        \A n \in 1..Len(content) :
            (Contains(content[n], <<"=">>)
               /\ StartsWith(ValueOf(content[n]), <<"C", ":", "\\">>))
            => ItemsOfLine(n - 1) = <<>>

\* a line with a lettered path value next to a line that yields an item
C5_Witness ==
    /\ Extracted
    /\ items # <<>>
    /\ \E n \in 1..Len(content) :
          /\ Contains(content[n], <<"=">>)
          /\ StartsWith(ValueOf(content[n]), <<"C", ":", "\\">>)
          /\ HasLetter(ValueOf(content[n]))
          /\ Len(ValueOf(content[n])) >= 2
          /\ ItemsOfLine(n - 1) = <<>>

\* C7 as stated: when every translated value equals its original value, each
\* line of the output equals the line of the input.
C7_Original ==
    (fpc = "written"
       /\ \A k \in 1..Len(updates) : updates[k].translated_value = updates[k].original_value)
    => out = content

----------------------------------------------------------------------------
(* Property of update_file_with_translations, checked under SpecRewrite.   *)

\* C6: the lines written are as many as the lines read, and every line whose
\* index is the line_num of no update is the line read, for any list of
\* updates.
C6_UntouchedLines ==
    fpc = "written" =>
        /\ Len(out) = Len(content)
        /\ \A n \in 1..Len(content) :
              (\A k \in 1..Len(updates) : updates[k].line_num # n - 1)
              => out[n] = content[n]

\* one update out of range, one that rewrote a line, and a line left alone
C6_Witness ==
    /\ fpc = "written"
    /\ \E k \in 1..Len(updates) : updates[k].line_num >= Len(content)
    /\ \E n \in 1..Len(content) : out[n] # content[n]
    /\ \E n \in 1..Len(content) :
          /\ \A k \in 1..Len(updates) : updates[k].line_num # n - 1
          /\ out[n] = content[n]

====
